---- MODULE Spec2Model ----
(***************************************************************************)
(* Lazily-evaluated, order-independent plugins for extensible types        *)
(* (src/src/lib.rs).  A host owns one AnyMap; GetCached::get_ref, get_mut  *)
(* and get look a plugin type up in the map, construct it on a miss        *)
(* through PluginFor::create, insert it and re-run themselves; Get::compute *)
(* calls create and stores nothing.                                        *)
(***************************************************************************)
EXTENDS Integers, Sequences, FiniteSets

\* ---------------------------------------------------------------- bounds
NumTypes == 2       \* number of distinct plugin types (One, Two, Three, ...)
MaxVal   == 2       \* plugin values are 1..MaxVal
MaxCalls == 3       \* number of accessor calls explored on one host

\* ------------------------------------------------------- values and types
\* Option<T>: None is 0, Some(v) is v in Values.
None == 0

Types  == 1..NumTypes
Values == 1..MaxVal
Option == Values \cup {None}

CachedOps == {"get_ref", "get_mut", "get"}

VARIABLES
    map,            \* the host's AnyMap: plugin type -> Option (None = absent)
    state,          \* the rest of the host, as the factories see it
    last,           \* the most recent accessor call and what it returned
    ncalls,         \* accessor calls made so far
    invoked,        \* per type: create invocations made by get_ref/get_mut/get
    computed,       \* create invocations made by compute
    succeeded,      \* per type: create has returned a value in a cached call
    refused,        \* per type: the latest cached call ended with create = None
    constructed,    \* per type: the value create returned when it was cached
    prev,           \* per type: what the previous cached call returned
    held,           \* the value the caller keeps from its latest get::<T>()
    made,           \* the types whose create the cached accessors invoked, in order
    missed,         \* the types of the cached requests that found T absent, in order
    written         \* per type: the value the caller last wrote through get_mut

vars == <<map, state, last, ncalls, invoked, computed,
          succeeded, refused, constructed, prev, held, made, missed,
          written>>

\* ------------------------------------------------------------ the AnyMap
\* AnyMap::new()
EmptyMap == [T \in Types |-> None]

\* AnyMap::contains::<T>()
contains(ext, T) == ext[T] # None

\* AnyMap::find::<T>()
find(ext, T) == ext[T]

\* AnyMap::find_mut::<T>(): the same cell, borrowed mutably
find_mut(ext, T) == ext[T]

\* An insert whose growth loses the entries stored before it.
insert_drops_others(ext, T, t) == [U \in Types |-> IF U = T THEN t ELSE None]

\* AnyMap::insert::<T>(t): replaces any previous entry of that type
insert(ext, T, t) == [ext EXCEPT ![T] = t]

\* Extensible::extensions / extensions_mut: the host's map
extensions(host) == host.map

extensions_mut(host, ext) == [host EXCEPT !.map = ext]

\* Clone::clone of a plugin value
clone(c) == c

\* ------------------------------------------------------------ PluginFor
\* A factory that reads another plugin's cached value out of the host.
create_reads_cache(T, host) ==
    LET U == IF T = 1 THEN NumTypes ELSE T - 1
    IN  IF host.map[U] # None
        THEN host.map[U]
        ELSE (T + host.state) % (MaxVal + 1)

\* PluginFor::create(&host): the factory of plugin type T.  It is handed the
\* whole host and answers from the host's own state alone.  The family used
\* here makes every type refuse (None) in one host state and yield each value
\* in another, and makes different types answer differently in one state.
create(T, host) == (T + host.state) % (MaxVal + 1)

\* Result of one accessor call: the host afterwards, the value returned, and
\* how many create invocations, presence checks and inserts the call made.
\* owned tells a value handed over by value from a borrow of the stored cell.
Result(host, ret, ncreate, ncheck, ninsert) ==
    [host |-> host, ret |-> ret, creates |-> ncreate,
     checks |-> ncheck, inserts |-> ninsert, owned |-> FALSE]

\* A result returned by value (Option<T>), not as a reference into the map.
Owned(r) == [r EXCEPT !.owned = TRUE]

\* Option<&T>::map(|c| c.clone()): the found value, copied out of the map.
Cloned(r) == Owned([r EXCEPT !.ret = clone(@)])

\* The re-run after an insert, seen from the call that made it.
Outer(r) ==
    [r EXCEPT !.creates = @ + 1, !.checks = @ + 1, !.inserts = @ + 1]

\* ------------------------------------------------------------ GetCached
\* get_ref that hands back the fresh value without storing it.
get_ref_no_insert(host, T) ==
    LET found == contains(extensions(host), T)
    IN  IF found
        THEN Result(host, find(extensions(host), T), 0, 1, 0)
        ELSE LET t == create(T, host)
             IN  IF t = None
                 THEN Result(host, None, 1, 1, 0)
                 ELSE Result(host, t, 1, 1, 0)

\* get_ref that constructs before looking, and so constructs on a hit too.
get_ref_always_create(host, T) ==
    LET t == create(T, host)
    IN  IF t = None
        THEN Result(host, None, 1, 0, 0)
        ELSE LET h == extensions_mut(host, insert(extensions(host), T, t))
             IN  Result(h, find(extensions(h), T), 1, 1, 1)

\* GetCached::get_ref::<T>()
RECURSIVE get_ref(_, _)
get_ref(host, T) ==
    LET found == contains(extensions(host), T)
    IN  IF found
        THEN Result(host, find(extensions(host), T), 0, 1, 0)
        ELSE LET t == create(T, host)
             IN  IF t = None
                 THEN Result(host, None, 1, 1, 0)
                 ELSE Outer(get_ref(
                          extensions_mut(host, insert(extensions(host), T, t)),
                          T))

\* get_mut that caches a placeholder when the factory refuses.
get_mut_caches_refusal(host, T) ==
    LET found == contains(extensions(host), T)
    IN  IF found
        THEN Result(host, find_mut(extensions(host), T), 0, 1, 0)
        ELSE LET t == create(T, host)
                 h == extensions_mut(host,
                          insert(extensions(host), T, IF t = None THEN 1 ELSE t))
             IN  Result(h, t, 1, 2, 1)

\* get_mut that gives up after a construction instead of storing it.
get_mut_no_insert(host, T) ==
    LET found == contains(extensions(host), T)
    IN  IF found
        THEN Result(host, find_mut(extensions(host), T), 0, 1, 0)
        ELSE Result(host, None, 1, 1, 0)

\* get_mut that asks the factory once to see whether it succeeds and a second
\* time for the value it stores.
get_mut_creates_twice(host, T) ==
    LET found == contains(extensions(host), T)
    IN  IF found
        THEN Result(host, find_mut(extensions(host), T), 0, 1, 0)
        ELSE IF create(T, host) = None
             THEN Result(host, None, 1, 1, 0)
             ELSE LET h == extensions_mut(host,
                               insert(extensions(host), T, create(T, host)))
                  IN  Result(h, find_mut(extensions(h), T), 2, 2, 1)

\* get_mut that inserts the fresh value whether or not T is already stored.
get_mut_overwrites(host, T) ==
    LET t == create(T, host)
    IN  IF t = None
        THEN Result(host, find_mut(extensions(host), T), 1, 1, 0)
        ELSE LET h == extensions_mut(host, insert(extensions(host), T, t))
             IN  Result(h, find_mut(extensions(h), T), 1, 1, 1)

\* get_mut that re-runs itself twice after the insert.
get_mut_reruns_twice(host, T) ==
    LET found == contains(extensions(host), T)
    IN  IF found
        THEN Result(host, find_mut(extensions(host), T), 0, 1, 0)
        ELSE LET t == create(T, host)
             IN  IF t = None
                 THEN Result(host, None, 1, 1, 0)
                 ELSE LET h == extensions_mut(host,
                                   insert(extensions(host), T, t))
                      IN  Result(h, find_mut(extensions(h), T), 1, 3, 1)

\* get_mut that hands out a copy of the stored value, not a reference to it.
get_mut_returns_copy(host, T) ==
    LET found == contains(extensions(host), T)
    IN  IF found
        THEN Cloned(Result(host, find(extensions(host), T), 0, 1, 0))
        ELSE LET t == create(T, host)
             IN  IF t = None
                 THEN Result(host, None, 1, 1, 0)
                 ELSE Outer(Cloned(Result(
                          extensions_mut(host, insert(extensions(host), T, t)),
                          t, 0, 1, 0)))

\* GetCached::get_mut::<T>()
RECURSIVE get_mut(_, _)
get_mut(host, T) ==
    LET found == contains(extensions(host), T)
    IN  IF found
        THEN Result(host, find_mut(extensions(host), T), 0, 1, 0)
        ELSE LET t == create(T, host)
             IN  IF t = None
                 THEN Result(host, None, 1, 1, 0)
                 ELSE Outer(get_mut(
                          extensions_mut(host, insert(extensions(host), T, t)),
                          T))

\* get that reconstructs on a hit instead of cloning the stored value.
get_fresh_on_hit(host, T) ==
    LET t == create(T, host)
    IN  IF contains(extensions(host), T)
        THEN Result(host, t, 1, 1, 0)
        ELSE IF t = None
             THEN Result(host, None, 1, 1, 0)
             ELSE Result(extensions_mut(host, insert(extensions(host), T, t)),
                         t, 1, 2, 1)

\* get that returns the fresh value and forgets to store it.
get_no_insert(host, T) ==
    LET found == contains(extensions(host), T)
    IN  IF found
        THEN Result(host, clone(find(extensions(host), T)), 0, 1, 0)
        ELSE Result(host, create(T, host), 1, 1, 0)

\* get that returns the found reference itself instead of a clone of it.
RECURSIVE get_returns_borrow(_, _)
get_returns_borrow(host, T) ==
    LET found == contains(extensions(host), T)
    IN  IF found
        THEN Result(host, find(extensions(host), T), 0, 1, 0)
        ELSE LET t == create(T, host)
             IN  IF t = None
                 THEN Result(host, None, 1, 1, 0)
                 ELSE Outer(get_returns_borrow(
                          extensions_mut(host, insert(extensions(host), T, t)),
                          T))

\* GetCached::get::<T>()
RECURSIVE get(_, _)
get(host, T) ==
    LET found == contains(extensions(host), T)
    IN  IF found
        THEN Cloned(Result(host, find(extensions(host), T), 0, 1, 0))
        ELSE LET t == create(T, host)
             IN  IF t = None
                 THEN Result(host, None, 1, 1, 0)
                 ELSE Outer(get(
                          extensions_mut(host, insert(extensions(host), T, t)),
                          T))

\* ------------------------------------------------------------------ Get
\* compute that answers from the host's map when T is cached there.
compute_from_cache(host, T) ==
    IF contains(extensions(host), T)
    THEN Result(host, find(extensions(host), T), 0, 1, 0)
    ELSE Result(host, create(T, host), 1, 1, 0)

\* Get::compute::<T>()
compute(host, T) == Owned(Result(host, create(T, host), 1, 0, 0))

\* ------------------------------------------------------------ the host
\* The host value the accessors are called on.
Host == [state |-> state, map |-> map]

HostStates == 0..MaxVal

NoCall == [op |-> "none", t |-> 1, ret |-> None, creates |-> 0,
           checks |-> 0, inserts |-> 0, owned |-> TRUE]

\* The caller holds nothing from a get call yet.
NoHeld == [t |-> 1, val |-> None, got |-> None, owned |-> TRUE]

\* What the caller holds once the map has become m: a value held by value
\* stays as it is, a borrow shows whatever its cell holds now.
Follow(h, m) ==
    IF h.val # None /\ ~h.owned THEN [h EXCEPT !.val = m[h.t]] ELSE h

Init ==
    /\ map = EmptyMap
    /\ state \in HostStates
    /\ last = NoCall
    /\ ncalls = 0
    /\ invoked = [T \in Types |-> 0]
    /\ computed = 0
    /\ succeeded = [T \in Types |-> FALSE]
    /\ refused = [T \in Types |-> FALSE]
    /\ constructed = [T \in Types |-> None]
    /\ prev = [T \in Types |-> None]
    /\ held = NoHeld
    /\ made = <<>>
    /\ missed = <<>>
    /\ written = [T \in Types |-> None]

\* What every accessor call leaves behind: the host and the call's record.
Returned(op, T, r) ==
    /\ map' = r.host.map
    /\ state' = r.host.state
    /\ last' = [op |-> op, t |-> T, ret |-> r.ret, creates |-> r.creates,
                checks |-> r.checks, inserts |-> r.inserts, owned |-> r.owned]
    /\ ncalls' = ncalls + 1
    /\ written' = written

\* The bookkeeping of a cached accessor call.
Cached(op, T, r) ==
    /\ Returned(op, T, r)
    /\ invoked' = [invoked EXCEPT ![T] = @ + r.creates]
    /\ computed' = computed
    /\ succeeded' = [succeeded EXCEPT ![T] = @ \/ (r.creates > 0 /\ r.ret # None)]
    /\ refused' = [refused EXCEPT ![T] = (r.creates > 0 /\ r.ret = None)]
    /\ constructed' = [constructed EXCEPT
                         ![T] = IF r.inserts > 0 THEN r.host.map[T] ELSE @]
    /\ prev' = [prev EXCEPT ![T] = r.ret]
    /\ held' = IF op = "get" /\ r.ret # None
               THEN [t |-> T, val |-> r.ret, got |-> r.ret, owned |-> r.owned]
               ELSE Follow(held, r.host.map)
    /\ made' = made \o [i \in 1..r.creates |-> T]
    /\ missed' = IF contains(map, T) THEN missed ELSE Append(missed, T)

\* host.get_ref::<T>()
GetRef(T) ==
    /\ ncalls < MaxCalls
    /\ Cached("get_ref", T, get_ref(Host, T))

\* host.get_mut::<T>()
GetMut(T) ==
    /\ ncalls < MaxCalls
    /\ Cached("get_mut", T, get_mut(Host, T))

\* host.get::<T>()
Get(T) ==
    /\ ncalls < MaxCalls
    /\ Cached("get", T, get(Host, T))

\* host.compute::<T>()
Compute(T) ==
    /\ ncalls < MaxCalls
    /\ Returned("compute", T, compute(Host, T))
    /\ computed' = computed + compute(Host, T).creates
    /\ UNCHANGED <<invoked, succeeded, refused, constructed, prev, held, made,
                   missed>>

\* The caller assigns through the &mut T that get_mut just returned: the
\* reference is into the map, so the assignment changes the stored value.
WriteMut(v) ==
    /\ last.op = "get_mut"
    /\ last.ret # None
    /\ v # last.ret
    /\ map' = IF last.owned THEN map ELSE [map EXCEPT ![last.t] = v]
    /\ last' = [last EXCEPT !.ret = v]
    /\ written' = [written EXCEPT ![last.t] = v]
    /\ prev' = [prev EXCEPT ![last.t] = v]
    /\ held' = Follow(held, map')
    /\ UNCHANGED <<state, ncalls, invoked, computed, succeeded, refused,
                   constructed, made, missed>>

\* The owner changes the host's own state between calls.
SetState(x) ==
    /\ x # state
    /\ state' = x
    /\ UNCHANGED <<map, last, ncalls, invoked, computed, succeeded, refused,
                   constructed, prev, held, made, missed, written>>

Next ==
    \/ \E T \in Types : GetRef(T)
    \/ \E T \in Types : GetMut(T)
    \/ \E T \in Types : Get(T)
    \/ \E T \in Types : Compute(T)
    \/ \E v \in Values : WriteMut(v)
    \/ \E x \in HostStates : SetState(x)

Spec == Init /\ [][Next]_vars

\* One fixed host: only the cached accessors run, in any order and any mode.
NextFixed ==
    \/ \E T \in Types : GetRef(T)
    \/ \E T \in Types : GetMut(T)
    \/ \E T \in Types : Get(T)

SpecFixed == Init /\ [][NextFixed]_vars

\* Accessor calls on a host whose own state changes, with no caller writing
\* through a get_mut reference.
NextGrowth ==
    \/ \E T \in Types : GetRef(T)
    \/ \E T \in Types : GetMut(T)
    \/ \E T \in Types : Get(T)
    \/ \E T \in Types : Compute(T)
    \/ \E x \in HostStates : SetState(x)

SpecGrowth == Init /\ [][NextGrowth]_vars

\* ------------------------------------------------------------ properties
\* A step that is one accessor call.
CallStep == ncalls' = ncalls + 1

\* A step that is a get_ref, get_mut or get call for T.
CachedStep(T) == CallStep /\ last'.op \in CachedOps /\ last'.t = T

\* A step that is a compute call for T.
ComputeStep(T) == CallStep /\ last'.op = "compute" /\ last'.t = T

\* The most recent call was a cached accessor call for T.
LastCached(T) == last.op \in CachedOps /\ last.t = T

\* C1: once T's create has returned a value during a cached accessor call, no
\* later get_ref, get_mut or get call on the host invokes T's create again.
C1_AtMostOnceAfterSuccess ==
    [][\A T \in Types :
          (succeeded[T] /\ CachedStep(T))
              => (last'.creates = 0 /\ invoked'[T] = invoked[T])]_vars

\* A cached call for an already constructed T returned without constructing,
\* although the host now would construct a different value.
C1_Witness ==
    \E T \in Types :
        /\ succeeded[T] /\ LastCached(T)
        /\ last.creates = 0 /\ invoked[T] = 1 /\ ncalls >= 2
        /\ create(T, Host) # map[T]

\* C2: create is called at most once per (host, plugin type) pair over the
\* lifetime of the host's store, whatever cached accessor calls are made.
C2_CreateOnlyOnce == \A T \in Types : invoked[T] <= 1

C4_RefusalNoMutation ==
    [][\A T \in Types :
          (CachedStep(T) /\ ~contains(map, T) /\ create(T, Host) = None)
              => /\ last'.ret = None
                 /\ map' = map
                 /\ ~contains(map', T)]_vars

\* A refused call on a host that already caches another type.
C4_Witness ==
    \E T \in Types, U \in Types :
        /\ LastCached(T) /\ last.ret = None /\ last.creates = 1
        /\ refused[T] /\ ~contains(map, T)
        /\ U # T /\ contains(map, U)

C6_SuccessfulMiss ==
    [][\A T \in Types :
          (CachedStep(T) /\ ~contains(map, T) /\ create(T, Host) # None)
              => /\ last'.ret = create(T, Host)
                 /\ map' = [map EXCEPT ![T] = create(T, Host)]
                 /\ last'.ret = find(map', T)
                 /\ last'.inserts = 1]_vars

\* A miss that constructed, stored and returned the value.
C6_Witness ==
    \E T \in Types :
        /\ LastCached(T) /\ last.creates = 1 /\ last.inserts = 1
        /\ last.ret # None /\ map[T] = last.ret /\ invoked[T] = 1

\* C7: on a fixed host, once every plugin type has been requested through the
\* cached accessors, in whatever order, the store maps each type to the value
\* its factory yields for that host: the same store for every order.
C7_OrderIndependent ==
    (\A T \in Types : invoked[T] > 0)
        => map = [T \in Types |-> create(T, [state |-> state, map |-> EmptyMap])]

\* Every type was requested, the first type last, and all were constructed.
C7_Witness ==
    /\ \A T \in Types : invoked[T] > 0 /\ contains(map, T)
    /\ last.t = 1 /\ last.creates = 1
    /\ \E T \in Types : map[T] # map[1]

\* C8: caching further plugin types leaves every previously cached type's
\* value as it was constructed, and get_ref for an earlier type returns it.
C8_GrowthCorrect ==
    \A T \in Types :
        succeeded[T]
            => /\ map[T] = constructed[T]
               /\ (last.op = "get_ref" /\ last.t = T) => last.ret = constructed[T]

\* Every type is cached, and get_ref for one that was cached before the others
\* returned its value without constructing.
C8_Witness ==
    /\ \A T \in Types : succeeded[T] /\ contains(map, T)
    /\ last.op = "get_ref" /\ last.creates = 0
    /\ last.ret = constructed[last.t]

\* C9: every compute call invokes create exactly once and returns its result
\* unchanged, without reading or writing the store, also when the store
\* already holds T.
C9_ComputeNeverCaches ==
    [][\A T \in Types :
          ComputeStep(T)
              => /\ last'.ret = create(T, Host)
                 /\ last'.creates = 1
                 /\ computed' = computed + 1
                 /\ last'.checks = 0 /\ last'.inserts = 0
                 /\ map' = map
                 /\ invoked' = invoked]_vars

\* Two compute calls for a type the store holds, the latest returning a value
\* other than the stored one.
C9_Witness ==
    /\ last.op = "compute" /\ computed >= 2
    /\ contains(map, last.t)
    /\ last.ret # map[last.t]
    /\ invoked[last.t] = 1

\* C10: from the same host and for the same T, get_ref, get_mut and get leave
\* the same store, invoke create the same number of times and return the same
\* value or absence; each cached call made is what all three would have done.
C10_ModesAgree ==
    [][\A T \in Types :
          CachedStep(T)
              => LET a == get_ref(Host, T)
                     b == get_mut(Host, T)
                     c == get(Host, T)
                 IN  /\ a.host = b.host /\ b.host = c.host
                     /\ a.creates = b.creates /\ b.creates = c.creates
                     /\ a.ret = b.ret /\ b.ret = c.ret
                     /\ map' = a.host.map
                     /\ last'.creates = a.creates
                     /\ last'.ret = a.ret]_vars

\* Hits, refusals and constructions have all occurred on one host.
C10_Witness ==
    \E T \in Types, U \in Types :
        /\ T # U
        /\ contains(map, T) /\ refused[U]
        /\ last.op = "get" /\ last.t = T /\ last.creates = 0

\* C11: the value get::<T>() returned is an independent copy: whatever is
\* inserted into the store later, and however the stored T is changed later,
\* the caller still holds the value it was given.
C11_CloneDecoupled == held.val = held.got /\ (held.val # None => held.owned)

\* The caller holds a clone of T; since then the stored T was changed through
\* get_mut and another plugin type was inserted.
C11_Witness ==
    /\ held.val # None
    /\ contains(map, held.t) /\ map[held.t] # held.val
    /\ last.t # held.t /\ last.inserts = 1 /\ last.op \in CachedOps

\* C12: a cached accessor call for T invokes only T's create, once on a miss
\* and never on a hit, and inserts only under T; so the create invocations
\* happen in the order of the requests that missed.
C12_ConstructionFollowsCalls ==
    /\ [](made = missed)
    /\ [][\A T \in Types :
             CachedStep(T)
                 => /\ last'.creates = (IF contains(map, T) THEN 0 ELSE 1)
                    /\ made' = made \o (IF contains(map, T) THEN <<>> ELSE <<T>>)
                    /\ \A U \in Types \ {T} :
                           map'[U] = map[U] /\ invoked'[U] = invoked[U]]_vars

\* Two different types missed one after the other, then a hit on the first,
\* and the factories ran in the order of the two misses.
C12_Witness ==
    /\ Len(made) = 2 /\ made[1] # made[2]
    /\ made = missed
    /\ LastCached(made[1]) /\ last.creates = 0

\* C13: get_ref, get_mut and get call the store's insert only for a type the
\* store does not contain, once, so a cached entry is never overwritten by a
\* fresh construction.
C13_InsertOnlyOnMiss ==
    [][\A T \in Types :
          CachedStep(T)
              => /\ last'.inserts > 0 => (~contains(map, T) /\ last'.inserts = 1)
                 /\ contains(map, T) => (last'.inserts = 0 /\ map'[T] = map[T])]_vars

\* A hit on a cached T whose factory would now yield another value: nothing
\* was inserted and the entry is as it was.
C13_Witness ==
    \E T \in Types :
        /\ LastCached(T) /\ last.inserts = 0 /\ last.creates = 0
        /\ contains(map, T) /\ last.ret = map[T]
        /\ create(T, Host) # None /\ create(T, Host) # map[T]
        /\ Len(made) >= 1

\* C14: the store contains T exactly when an earlier get_ref, get_mut or get
\* call for T had create return a value; the set of cached types only grows.
C14_NoEviction ==
    /\ [](\A T \in Types : contains(map, T) <=> succeeded[T])
    /\ [][\A T \in Types : contains(map, T) => contains(map', T)]_vars

\* T was cached, and then other calls were made, one of them refused: T is
\* still there and the refused type is not.
C14_Witness ==
    \E T \in Types, U \in Types :
        /\ succeeded[T] /\ contains(map, T) /\ made[1] = T
        /\ U # T /\ refused[U] /\ ~contains(map, U)
        /\ ncalls >= 3

\* C15: a get_ref, get_mut or get call makes at most one recursive self-call:
\* one presence check on a hit or a refusal, two when it inserted, the second
\* one finding T and returning it.
C15_AtMostOneRerun ==
    last.op \in CachedOps
        => /\ last.checks \in {1, 2}
           /\ last.checks = 1 + last.inserts
           /\ last.checks = 2 => (last.creates = 1 /\ last.ret # None)

\* A miss that inserted and came back from the hit branch of its re-run.
C15_Witness ==
    /\ last.op \in CachedOps /\ last.checks = 2 /\ last.inserts = 1
    /\ last.ret # None /\ last.ret = map[last.t]

\* C16: once the caller has changed the stored T through the reference that
\* get_mut returned, the store holds the changed value and every later
\* get_ref, get_mut and get for T returns it without invoking create.
C16_WritesPersist ==
    /\ [](\A T \in Types : written[T] # None => map[T] = written[T])
    /\ [][\A T \in Types :
             (CachedStep(T) /\ written[T] # None)
                 => /\ last'.ret = written[T]
                    /\ last'.creates = 0
                    /\ invoked'[T] = invoked[T]]_vars

\* get_ref returned the value the caller wrote, which is neither the value
\* first constructed nor the one the factory would yield now.
C16_Witness ==
    \E T \in Types :
        /\ written[T] # None /\ written[T] # constructed[T]
        /\ last.op = "get_ref" /\ last.t = T /\ last.ret = written[T]
        /\ create(T, Host) # None /\ create(T, Host) # written[T]

====
